---- MODULE Spec2Model ----
(***************************************************************************)
(* KubernetesResourceHandler of charmed_kubeflow_helpers: the status pass  *)
(* (resource_status) and the reconcile pass (reconcile_resources) over a   *)
(* cluster reached through a lightkube client, with the charm's leadership *)
(* and the cluster API's availability as the environment.                  *)
(***************************************************************************)
EXTENDS Integers, Sequences, FiniteSets, TLC

\* ------------------------------------------------------------------ bounds

\* Longest resource list a caller passes to one call; what render_manifests
\* returns has one resource per template, whatever this bound.
MaxLen == 1

\* ------------------------------------------------------------- value sets

\* Identifiers (kind + namespace + name) of the objects the cluster can hold.
IDs == {"r1", "r2"}

\* Desired specification bodies; the render context selects one.
Specs == {"v1", "v2"}

\* Live condition of an object the cluster holds.
Conds == {"ready", "notReady", "degraded"}

\* A lightkube resource: LightkubeResourceType.
LightkubeResourceType == [id : IDs, spec : Specs]

\* A list of lightkube resources: LightkubeResourcesType.
LightkubeResourcesType == UNION {[1..n -> LightkubeResourceType] : n \in 0..MaxLen}

\* The four status classes of CharmStatusType.
CharmStatusType == {"ActiveStatus", "WaitingStatus", "MaintenanceStatus", "BlockedStatus"}

\* HTTP code the except block of reconcile_resources singles out.
Forbidden == 403

\* The failures the cluster API answers a request with: ApiError.status.
ApiFailures == {[code |-> Forbidden, message |-> <<"forbidden">>],
                [code |-> 500, message |-> <<"internal error">>]}

NoFailure == [code |-> 0, message |-> <<>>]

\* What the API does with writes: nothing wrong, or a failure on one identifier
\* (the object that needs a permission, or a state, the others do not).
NoWriteFault == [code |-> 0, message |-> <<>>, id |-> "none"]

WriteFaults == {[code |-> f.code, message |-> f.message, id |-> "r2"] : f \in ApiFailures}

Absent == [present |-> FALSE, spec |-> "none", cond |-> "none"]

ClusterObjects == {Absent} \cup [present : {TRUE}, spec : Specs, cond : Conds]

\* ------------------------------------------------------------------ state

VARIABLES
    lightkube_client, \* self._lightkube_client: "None" or "Client"
    leader,           \* what charm.unit.is_leader() answers
    context,          \* charm.context_for_render
    cluster,          \* the objects the cluster holds, by identifier
    readFault,        \* identifiers whose lookup fails for a transport reason
    writeFault,       \* the failure the API answers the write of one identifier with
    last              \* the most recent call of the handler and what it did

vars == <<lightkube_client, leader, context, cluster, readFault, writeFault, last>>

\* ------------------------------------------------------------- exceptions

None == [type |-> "None", msg |-> <<>>, status_type |-> "none", code |-> 0]

\* ErrorWithStatus.__init__: an exception carrying msg and status_type.
ErrorWithStatus(type, msg, status_type) ==
    [type |-> type, msg |-> msg, status_type |-> status_type, code |-> 0]

\* ErrorWithStatus.status: status_type(msg).
StatusOf(e) == [type |-> e.status_type, msg |-> e.msg]

\* LeadershipError(): the defaults of its constructor.
LeadershipError == ErrorWithStatus("LeadershipError", <<"Waiting for leadership">>, "WaitingStatus")

\* ReconcileError(msg, status_type): an ErrorWithStatus.
ReconcileError(msg, status_type) == ErrorWithStatus("ReconcileError", msg, status_type)

\* lightkube's ApiError with its status.code and status.message.
ApiError(failure) ==
    [type |-> "ApiError", msg |-> failure.message, status_type |-> "none", code |-> failure.code]

AttributeError == [type |-> "AttributeError", msg |-> <<"app_name">>, status_type |-> "none", code |-> 0]

ValueError ==
    [type |-> "ValueError", msg |-> <<"lightkube_client must be a lightkube.Client">>,
     status_type |-> "none", code |-> 0]

NoStatus == [type |-> "none", msg |-> <<>>]

\* ------------------------------------------------------------- leadership

\* A variant of is_leader that answers instead of raising.
is_leader_never_raises(raise_if_not_leader) ==
    IF leader THEN [raised |-> FALSE, value |-> TRUE, error |-> None]
    ELSE [raised |-> FALSE, value |-> FALSE, error |-> None]

\* is_leader(charm, raise_if_not_leader): raises LeadershipError or answers.
is_leader(raise_if_not_leader) ==
    IF ~leader
    THEN IF raise_if_not_leader
         THEN [raised |-> TRUE, value |-> FALSE, error |-> LeadershipError]
         ELSE [raised |-> FALSE, value |-> FALSE, error |-> None]
    ELSE [raised |-> FALSE, value |-> TRUE, error |-> None]

\* ------------------------------------------------------------- rendering

\* self._charm.template_files: one template per identifier, in order.
template_files == <<"r1", "r2">>

\* render_manifests: every template rendered with the context, in order.
render_manifests ==
    [i \in 1..Len(template_files) |-> [id |-> template_files[i], spec |-> context]]

\* The lightkube_client property: the client, made on first use.
lightkube_client_get ==
    IF lightkube_client = "None"
    THEN [raised |-> TRUE, error |-> AttributeError]
    ELSE [raised |-> FALSE, error |-> None]

\* ---------------------------------------------------------- cluster reads

\* Severity of a status class: Active < Waiting < Maintenance < Blocked.
Rank(status_type) ==
    CASE status_type = "ActiveStatus" -> 0
      [] status_type = "WaitingStatus" -> 1
      [] status_type = "MaintenanceStatus" -> 2
      [] status_type = "BlockedStatus" -> 3
      [] OTHER -> 0

\* ResourceChecker.check: the live object against the desired resource.
check(resource) ==
    LET live == cluster[resource.id] IN
    IF resource.id \in readFault
    THEN [raised |-> TRUE, result |-> None]
    ELSE [raised |-> FALSE,
          result |->
            IF ~live.present
            THEN ErrorWithStatus("ResourceError", <<resource.id, "not found">>, "WaitingStatus")
            ELSE IF live.spec # resource.spec
            THEN ErrorWithStatus("ResourceError", <<resource.id, "out of date">>, "WaitingStatus")
            ELSE IF live.cond = "notReady"
            THEN ErrorWithStatus("ResourceError", <<resource.id, "not ready">>, "WaitingStatus")
            ELSE IF live.cond = "degraded"
            THEN ErrorWithStatus("ResourceError", <<resource.id, "degraded">>, "MaintenanceStatus")
            ELSE None]

\* check_resources(client, resources): every resource checked in order; a
\* lookup that fails is recorded as a Blocked-level cause.
check_resources(resources) ==
    LET errors == [i \in 1..Len(resources) |->
                     LET c == check(resources[i]) IN
                     IF c.raised
                     THEN ErrorWithStatus("ResourceError",
                                          <<resources[i].id, "could not determine status">>,
                                          "BlockedStatus")
                     ELSE c.result]
    IN [charm_ok |-> \A i \in 1..Len(resources) : errors[i] = None,
        errors |-> errors,
        reads |-> Len(resources)]

RECURSIVE worst_from(_, _, _)
worst_from(errors, i, worst) ==
    IF i > Len(errors) THEN worst
    ELSE IF Rank(errors[i].status_type) > Rank(worst.status_type)
         THEN worst_from(errors, i + 1, errors[i])
         ELSE worst_from(errors, i + 1, worst)

\* get_first_worst_error(errors): the first error of the highest severity.
get_first_worst_error(errors) ==
    IF Len(errors) = 0 THEN None ELSE worst_from(errors, 2, errors[1])

\* --------------------------------------------------------- cluster writes

\* Server-side apply of one resource: created, or updated in place.
apply_one(cl, resource) ==
    LET old == cl[resource.id] IN
    [cl EXCEPT ![resource.id] =
        [present |-> TRUE,
         spec |-> resource.spec,
         cond |-> IF old.present /\ old.spec = resource.spec THEN old.cond ELSE "notReady"]]

RECURSIVE apply_from(_, _, _)
apply_from(cl, resources, i) ==
    IF i > Len(resources) THEN [failure |-> NoFailure, cluster |-> cl]
    ELSE IF writeFault # NoWriteFault /\ resources[i].id = writeFault.id
         THEN [failure |-> [code |-> writeFault.code, message |-> writeFault.message],
               cluster |-> cl]
         ELSE apply_from(apply_one(cl, resources[i]), resources, i + 1)

\* lightkube_client.apply_many(resources): each resource applied in order,
\* stopping at the first the API refuses.
apply_many(cl, resources) == apply_from(cl, resources, 1)

\* ------------------------------------------------------------------ calls

\* The argument of a call: resources=None, or a list of resources.
Args == {[given |-> FALSE, resources |-> <<>>]} \cup [given : {TRUE}, resources : LightkubeResourcesType]

Line(text) == [text |-> text, i |-> 0, n |-> 0, msg |-> <<>>]

\* What a call of the handler did: how it ended, what it returned or raised,
\* how often it used each collaborator, and the lines it logged.
Idle ==
    [op |-> "none", given |-> FALSE, resources |-> <<>>, outcome |-> "none",
     status |-> NoStatus, error |-> None, applyError |-> None,
     nRender |-> 0, nCheck |-> 0, nReads |-> 0, nApply |-> 0,
     errors |-> <<>>, log |-> <<>>, again |-> FALSE, changed |-> FALSE]

\* The record of a call, with what only the run around it knows: whether the
\* call before it was the same call, with the same resources, and returned;
\* and whether this one changed the cluster.
Recorded(call, after) ==
    [call EXCEPT !.again = /\ last.op = call.op
                           /\ last.outcome = "returned"
                           /\ last.resources = call.resources,
                 !.changed = after # cluster]

\* ----------------------------------------------------------- status pass

\* A variant of lines 73-88 that returns the status of the first error found.
status_from_check_first(charm_ok, errors) ==
    IF charm_ok
    THEN [status |-> [type |-> "ActiveStatus", msg |-> <<>>],
          log |-> <<Line("Status: active")>>]
    ELSE LET found == SelectSeq(errors, LAMBDA error : error # None) IN
         [status |-> StatusOf(found[1]),
          log |-> <<Line("Charm is not active due to one or more issues:")>>
                  \o [i \in 1..Len(found) |->
                        [text |-> "Issue", i |-> i, n |-> Len(found), msg |-> found[i].msg]]]

\* A variant of lines 73-88 that logs every entry of errors, None included.
status_from_check_unfiltered(charm_ok, errors) ==
    IF charm_ok
    THEN [status |-> [type |-> "ActiveStatus", msg |-> <<>>],
          log |-> <<Line("Status: active")>>]
    ELSE [status |-> StatusOf(get_first_worst_error(SelectSeq(errors, LAMBDA error : error # None))),
          log |-> <<Line("Charm is not active due to one or more issues:")>>
                  \o [i \in 1..Len(errors) |->
                        [text |-> "Issue", i |-> i, n |-> Len(errors), msg |-> errors[i].msg]]]

\* Lines 73-88 of resource_status: the status for what check_resources found,
\* and the lines logged on the way.
status_from_check(charm_ok, errors) ==
    IF charm_ok
    THEN [status |-> [type |-> "ActiveStatus", msg |-> <<>>],
          log |-> <<Line("Status: active")>>]
    ELSE LET found == SelectSeq(errors, LAMBDA error : error # None) IN
         [status |-> StatusOf(get_first_worst_error(found)),
          log |-> <<Line("Charm is not active due to one or more issues:")>>
                  \o [i \in 1..Len(found) |->
                        [text |-> "Issue", i |-> i, n |-> Len(found), msg |-> found[i].msg]]]

\* resource_status(resources): the call record and the cluster it leaves.
resource_status_call(arg) ==
    LET gate == is_leader(TRUE)
        begun == [Idle EXCEPT !.op = "resource_status", !.given = arg.given,
                              !.log = <<Line("Computing status")>>]
    IN
    IF gate.raised
    THEN [call |-> [begun EXCEPT !.outcome = "returned", !.status = StatusOf(gate.error)],
          cluster |-> cluster]
    ELSE
    LET resources == IF ~arg.given THEN render_manifests ELSE arg.resources
        rendered == [begun EXCEPT !.resources = resources,
                                  !.nRender = IF ~arg.given THEN 1 ELSE 0,
                                  !.log = IF ~arg.given
                                          THEN @ \o <<Line("Rendering manifests")>> ELSE @]
        client == lightkube_client_get
    IN
    IF client.raised
    THEN [call |-> [rendered EXCEPT !.outcome = "raised", !.error = client.error],
          cluster |-> cluster]
    ELSE
    LET found == check_resources(resources)
        verdict == status_from_check(found.charm_ok, found.errors)
    IN [call |-> [rendered EXCEPT !.outcome = "returned",
                                  !.status = verdict.status,
                                  !.nCheck = 1,
                                  !.nReads = found.reads,
                                  !.errors = found.errors,
                                  !.log = @ \o verdict.log],
        cluster |-> cluster]

\* --------------------------------------------------------- reconcile pass

\* The fixed message of the ReconcileError raised for a 403.
MissingTrust == <<"Cannot create required resources.  Charm may be missing --trust">>

\* A variant of the except block that relabels every ApiError, whatever its code.
on_api_error_any(e) == ReconcileError(MissingTrust, "BlockedStatus")

\* Lines 126-141 of reconcile_resources: what the except block raises for e.
on_api_error(e) ==
    IF e.code = Forbidden
    THEN ReconcileError(MissingTrust, "BlockedStatus")
    ELSE e

\* A variant of the write that creates instead of applying: the API answers
\* 409 when an object of the list is already there.
apply_call_create(cl, resources) ==
    IF \E i \in 1..Len(resources) : cl[resources[i].id].present
    THEN [failure |-> [code |-> 409, message |-> <<"already exists">>],
          cluster |-> cl, calls |-> 1]
    ELSE LET applied == apply_many(cl, resources) IN
         [failure |-> applied.failure, cluster |-> applied.cluster, calls |-> 1]

\* A variant of the write that also removes what the list does not name.
apply_call_prune(cl, resources) ==
    LET applied == apply_many(cl, resources)
        named == {resources[i].id : i \in 1..Len(resources)}
    IN [failure |-> applied.failure,
        cluster |-> [id \in IDs |-> IF id \in named THEN applied.cluster[id] ELSE Absent],
        calls |-> 1]

\* A variant of the write that tries once more when the API refuses.
apply_call_retry(cl, resources) ==
    LET first == apply_many(cl, resources) IN
    IF first.failure = NoFailure
    THEN [failure |-> first.failure, cluster |-> first.cluster, calls |-> 1]
    ELSE LET second == apply_many(first.cluster, resources) IN
         [failure |-> second.failure, cluster |-> second.cluster, calls |-> 2]

\* Lines 122-125 of reconcile_resources: the one write of the pass.
apply_call(cl, resources) ==
    LET applied == apply_many(cl, resources) IN
    [failure |-> applied.failure, cluster |-> applied.cluster, calls |-> 1]

\* reconcile_resources(resources): the call record and the cluster it leaves.
reconcile_resources_call(arg) ==
    LET begun == [Idle EXCEPT !.op = "reconcile_resources", !.given = arg.given,
                              !.log = <<Line("Reconciling")>>]
        resources == IF ~arg.given THEN render_manifests ELSE arg.resources
        rendered == [begun EXCEPT !.resources = resources,
                                  !.nRender = IF ~arg.given THEN 1 ELSE 0,
                                  !.log = IF ~arg.given
                                          THEN @ \o <<Line("Rendering manifests")>> ELSE @]
        client == lightkube_client_get
    IN
    IF client.raised
    THEN [call |-> [rendered EXCEPT !.outcome = "raised", !.error = client.error],
          cluster |-> cluster]
    ELSE
    LET applied == apply_call(cluster, resources) IN
    IF applied.failure # NoFailure
    THEN LET e == ApiError(applied.failure) IN
         [call |-> [rendered EXCEPT !.outcome = "raised",
                                    !.error = on_api_error(e),
                                    !.applyError = e,
                                    !.nApply = applied.calls,
                                    !.log = IF e.code = Forbidden
                                            THEN @ \o <<Line("Received Forbidden (403) error"),
                                                        [text |-> "Error received", i |-> 0,
                                                         n |-> 0, msg |-> e.msg]>>
                                            ELSE @],
          cluster |-> applied.cluster]
    ELSE [call |-> [rendered EXCEPT !.outcome = "returned",
                                    !.nApply = applied.calls,
                                    !.log = @ \o <<Line("Reconcile completed successfully")>>],
          cluster |-> applied.cluster]

\* ---------------------------------------------------------------- actions

Init ==
    /\ lightkube_client = "None"
    /\ leader \in BOOLEAN
    /\ context \in Specs
    /\ cluster \in [IDs -> ClusterObjects]
    /\ readFault = {}
    /\ writeFault = NoWriteFault
    /\ last = Idle

\* A variant of the status pass that applies the resources it has checked.
resource_status_applies(arg) ==
    LET r == resource_status_call(arg)
        after == IF r.call.nCheck = 1
                 THEN apply_many(cluster, r.call.resources).cluster
                 ELSE cluster
    IN
    /\ last' = Recorded(r.call, after)
    /\ cluster' = after
    /\ UNCHANGED <<lightkube_client, leader, context, readFault, writeFault>>

\* A call of resource_status.
resource_status(arg) ==
    LET r == resource_status_call(arg) IN
    /\ last' = Recorded(r.call, r.cluster)
    /\ cluster' = r.cluster
    /\ UNCHANGED <<lightkube_client, leader, context, readFault, writeFault>>

\* A call of reconcile_resources.
reconcile_resources(arg) ==
    LET r == reconcile_resources_call(arg) IN
    /\ last' = Recorded(r.call, r.cluster)
    /\ cluster' = r.cluster
    /\ UNCHANGED <<lightkube_client, leader, context, readFault, writeFault>>

\* The lightkube_client setter: a Client is kept, anything else refused.
lightkube_client_set(value) ==
    /\ IF value = "Client"
       THEN /\ lightkube_client' = value
            /\ last' = [Idle EXCEPT !.op = "lightkube_client", !.outcome = "returned"]
       ELSE /\ lightkube_client' = lightkube_client
            /\ last' = [Idle EXCEPT !.op = "lightkube_client", !.outcome = "raised",
                                    !.error = ValueError]
    /\ UNCHANGED <<leader, context, cluster, readFault, writeFault>>

\* The unit gains or loses leadership.
LeadershipChanges ==
    /\ leader' = ~leader
    /\ last' = Idle
    /\ UNCHANGED <<lightkube_client, context, cluster, readFault, writeFault>>

\* The charm's render context changes.
ContextChanges ==
    /\ context' \in Specs \ {context}
    /\ last' = Idle
    /\ UNCHANGED <<lightkube_client, leader, cluster, readFault, writeFault>>

\* An object of the cluster changes its live condition.
ConditionChanges ==
    /\ \E id \in IDs, c \in Conds :
          /\ cluster[id].present
          /\ cluster[id].cond # c
          /\ cluster' = [cluster EXCEPT ![id].cond = c]
    /\ last' = Idle
    /\ UNCHANGED <<lightkube_client, leader, context, readFault, writeFault>>

\* The lookups of the cluster API start or stop failing for some identifiers.
ReadFaultChanges ==
    /\ readFault' \in (SUBSET IDs) \ {readFault}
    /\ last' = Idle
    /\ UNCHANGED <<lightkube_client, leader, context, cluster, writeFault>>

\* The writes of the cluster API start or stop failing for an identifier.
WriteFaultChanges ==
    /\ writeFault' \in ({NoWriteFault} \cup WriteFaults) \ {writeFault}
    /\ last' = Idle
    /\ UNCHANGED <<lightkube_client, leader, context, cluster, readFault>>

Next ==
    \/ \E arg \in Args : resource_status(arg)
    \/ \E arg \in Args : reconcile_resources(arg)
    \/ \E value \in {"Client", "other"} : lightkube_client_set(value)
    \/ LeadershipChanges
    \/ ContextChanges
    \/ ConditionChanges
    \/ ReadFaultChanges
    \/ WriteFaultChanges

Spec == Init /\ [][Next]_vars

\* ----------------------------------------------------------- properties

\* The status class of one entry of the list check_resources returns.
Verdict(error) == IF error = None THEN "ActiveStatus" ELSE error.status_type

\* The status classes found by the status pass just made, in order.
Verdicts == [i \in 1..Len(last.errors) |-> Verdict(last.errors[i])]

\* Positions of the entries of the pass just made that are not None, and the
\* k-th of them.
Problems == {i \in 1..Len(last.errors) : last.errors[i] # None}

NthProblem(k) == CHOOSE i \in Problems : Cardinality({j \in Problems : j <= i}) = k

\* The lines "Issue i/n: msg" the pass just made has logged.
Issues == SelectSeq(last.log, LAMBDA l : l.text = "Issue")

\* The first position of the highest severity the pass just made has found.
FirstWorst ==
    CHOOSE i \in Problems :
        /\ \A j \in Problems : Rank(Verdicts[j]) <= Rank(Verdicts[i])
        /\ \A j \in Problems : Rank(Verdicts[j]) = Rank(Verdicts[i]) => i <= j

StatusPassMade == last.op = "resource_status"

ReconcilePassMade == last.op = "reconcile_resources"

\* C1: a status pass made while the unit is not the leader returns
\* WaitingStatus and has used neither render_manifests nor check_resources nor
\* any lookup of the client, with or without a resource list passed in.
C1_NonLeaderShortCircuit ==
    (StatusPassMade /\ ~leader) =>
        /\ last.outcome = "returned"
        /\ last.status.type = "WaitingStatus"
        /\ last.nRender = 0
        /\ last.nCheck = 0
        /\ last.nReads = 0

C1_Witness ==
    /\ StatusPassMade /\ ~leader /\ ~last.given
    /\ lightkube_client = "Client"
    /\ last.status = [type |-> "WaitingStatus", msg |-> <<"Waiting for leadership">>]

\* C2: when apply_many fails with 403, reconcile_resources raises a
\* ReconcileError of BlockedStatus with the fixed, non-empty message; when it
\* fails with any other code, the ApiError the API answered, code and message
\* as they were, is what the caller gets, and it carries no BlockedStatus.
C2_AuthorizationRelabeling ==
    (ReconcilePassMade /\ last.applyError # None) =>
        /\ last.outcome = "raised"
        /\ last.applyError = ApiError([code |-> writeFault.code, message |-> writeFault.message])
        /\ IF last.applyError.code = Forbidden
           THEN /\ last.error.type = "ReconcileError"
                /\ last.error.status_type = "BlockedStatus"
                /\ last.error.msg = MissingTrust
                /\ last.error.msg # <<>>
           ELSE /\ last.error = last.applyError
                /\ last.error.status_type # "BlockedStatus"

C2_Witness ==
    /\ ReconcilePassMade
    /\ last.applyError.code = Forbidden
    /\ last.error.type = "ReconcileError"
    /\ last.changed

\* C3: a reconcile pass made right after one that returned, with the same
\* resources, returns too and leaves the cluster as the first one left it.
C3_ApplyIdempotent ==
    (ReconcilePassMade /\ last.again) =>
        /\ last.outcome = "returned"
        /\ ~last.changed

C3_Witness ==
    /\ ReconcilePassMade /\ last.again
    /\ last.outcome = "returned"
    /\ Len(last.resources) > 1
    /\ \A i \in 1..Len(last.resources) :
          /\ cluster[last.resources[i].id].present
          /\ cluster[last.resources[i].id].spec = last.resources[i].spec

\* C4: a reconcile pass made while the unit is not the leader does not call
\* apply_many and leaves the cluster alone.
C4_ReconcileGatedByLeadership ==
    (ReconcilePassMade /\ ~leader) => (last.nApply = 0 /\ ~last.changed)

\* C5: the status a status pass returns after checking is ActiveStatus exactly
\* when every check found nothing (or nothing was checked); otherwise it is the
\* highest class found, under Active < Waiting < Maintenance < Blocked.
C5_WorstVerdict ==
    (StatusPassMade /\ last.nCheck = 1) =>
        /\ last.outcome = "returned"
        /\ (last.status.type = "ActiveStatus")
              <=> (\A i \in 1..Len(Verdicts) : Verdicts[i] = "ActiveStatus")
        /\ (Problems # {}) =>
              /\ \E i \in 1..Len(Verdicts) : Verdicts[i] = last.status.type
              /\ \A i \in 1..Len(Verdicts) : Rank(Verdicts[i]) <= Rank(last.status.type)

C5_Witness ==
    /\ StatusPassMade /\ last.nCheck = 1
    /\ Len(Verdicts) = 2
    /\ Verdicts[1] = "WaitingStatus"
    /\ Verdicts[2] = "MaintenanceStatus"
    /\ last.status.type = "MaintenanceStatus"

\* C6: a status pass always returns a status; and when a lookup fails for a
\* transport reason, every resource is still looked up and a Blocked-level
\* cause for the one that failed is among the causes.
C6_StatusPassAlwaysReturns ==
    StatusPassMade =>
        /\ last.outcome = "returned"
        /\ last.status.type \in CharmStatusType
        /\ \A i \in 1..Len(last.resources) :
              (last.nCheck = 1 /\ last.resources[i].id \in readFault) =>
                  /\ last.nReads = Len(last.resources)
                  /\ last.errors[i].status_type = "BlockedStatus"
                  /\ \E k \in 1..Len(Issues) : Issues[k].msg = last.errors[i].msg

\* The part of C6 about a lookup that fails, for the passes that reach the
\* lookups.
PartialFailureRecorded ==
    (StatusPassMade /\ last.nCheck = 1) =>
        /\ last.outcome = "returned"
        /\ \A i \in 1..Len(last.resources) :
              last.resources[i].id \in readFault =>
                  /\ last.nReads = Len(last.resources)
                  /\ last.errors[i].status_type = "BlockedStatus"
                  /\ last.status.type = "BlockedStatus"
                  /\ \E k \in 1..Len(Issues) : Issues[k].msg = last.errors[i].msg

\* C7: a reconcile pass leaves every object its resources do not name exactly
\* as it was: nothing is deleted, nothing else is touched.
C7_NoDeletion ==
    [][last'.op = "reconcile_resources" =>
          \A id \in IDs :
              (\A i \in 1..Len(last'.resources) : last'.resources[i].id # id)
                  => cluster'[id] = cluster[id]]_vars

C7_Witness ==
    /\ ReconcilePassMade
    /\ last.outcome = "returned"
    /\ last.changed
    /\ \E id \in IDs :
          /\ \A i \in 1..Len(last.resources) : last.resources[i].id # id
          /\ cluster[id].present

\* C8: a reconcile pass calls apply_many at most once, a status pass calls
\* check_resources at most once, and a pass whose apply_many failed has made
\* that one call and no other.
C8_NoRetry ==
    /\ ReconcilePassMade => last.nApply <= 1
    /\ StatusPassMade => last.nCheck <= 1
    /\ (ReconcilePassMade /\ last.applyError # None) => last.nApply = 1

C8_Witness ==
    /\ ReconcilePassMade
    /\ last.applyError # None
    /\ last.applyError.code # Forbidden
    /\ last.nApply = 1

\* C9: a status pass that found problems logs each of them once, as Issue i/n,
\* in the order of the resources, and nothing for the resources that are
\* fine; the status it returns carries the message of the first problem of
\* the highest severity.
C9_CausesRetained ==
    (StatusPassMade /\ last.nCheck = 1) =>
        /\ Len(Issues) = Cardinality(Problems)
        /\ \A k \in 1..Len(Issues) :
              /\ Issues[k].i = k
              /\ Issues[k].n = Cardinality(Problems)
              /\ Issues[k].msg = last.errors[NthProblem(k)].msg
        /\ (Problems # {}) => last.status = StatusOf(last.errors[FirstWorst])

C9_Witness ==
    /\ StatusPassMade /\ last.nCheck = 1
    /\ Len(last.errors) = 2
    /\ Verdicts[1] = "WaitingStatus"
    /\ Verdicts[2] = "WaitingStatus"
    /\ last.errors[1].msg # last.errors[2].msg
    /\ last.status.msg = last.errors[1].msg
    /\ Len(Issues) = 2

\* C10: a status pass, however it ends, calls no write of the client and
\* leaves the cluster as it found it.
C10_StatusReadOnly ==
    [][last'.op = "resource_status" => (cluster' = cluster /\ last'.nApply = 0)]_vars

C10_Witness ==
    /\ StatusPassMade /\ last.nCheck = 1
    /\ last.status.type = "WaitingStatus"
    /\ \E id \in IDs : ~cluster[id].present

====
